---- MODULE Spec2Model ----
(***************************************************************************)
(* A model of the csvloader package (src/unnamed/part_000).                *)
(*                                                                         *)
(* Two parts of the package are modelled:                                  *)
(*   - OpenCSV, step by step (os.Open, the encoding switch, the header     *)
(*     read, csv.Reader.ReadAll record by record, the deferred Close),     *)
(*     under the specification Spec;                                       *)
(*   - the accessors of a DataFrame (getValue, the ten typed getters and   *)
(*     ToJSON), each as one action, under the specification SpecAcc.       *)
(*                                                                         *)
(* Text (a cell, a column name) is a sequence of one-character strings,    *)
(* so that the parsers (strconv.Atoi, strconv.ParseFloat, time.Parse) can  *)
(* be written over the characters as the library reads them.               *)
(***************************************************************************)
EXTENDS Integers, Sequences, FiniteSets, TLC

VARIABLES
    \* ---- the environment and the arguments of one OpenCSV call
    fsys,        \* the files that exist: path -> sequence of lines
    filePath,    \* OpenCSV's first argument
    encoding,    \* OpenCSV's second argument
    \* ---- the call's position and locals
    pc,          \* position in OpenCSV
    handle,      \* the os.File: "none", "open", "closed"
    opens,       \* how many times os.Open was called
    deferred,    \* the deferred calls registered so far
    decoder,     \* the transform.Transformer chosen by the switch
    reader,      \* the csv.Reader: [pos, FieldsPerRecord]
    headers,     \* the header record
    records,     \* the records read so far by ReadAll
    result,      \* what OpenCSV returns: [df, err]
    \* ---- the accessors
    df,          \* the DataFrame the accessors are called on
    call,        \* the last accessor call: [fn, rowIndex, columnName]
    ret          \* what that call produced

loadVars == <<fsys, filePath, encoding, pc, handle, opens, deferred, decoder,
              reader, headers, records, result>>
accVars == <<df, call, ret>>
vars == <<fsys, filePath, encoding, pc, handle, opens, deferred, decoder,
          reader, headers, records, result, df, call, ret>>

\* ------------------------------------------------------------------ bounds

\* The most lines a file holds.
MaxLines == 3
\* The most fields a line of a file holds.
MaxFields == 2
\* The most records a DataFrame built by a caller holds.
MaxRows == 2
\* The most columns of its header, and the most cells of one of its records.
MaxCols == 2

\* ------------------------------------------------------------ general helpers

NULL == [null |-> TRUE]
NoError == [kind |-> "nil"]

Range(s) == {s[i] : i \in DOMAIN s}

SeqsUpTo(S, n) == UNION {[1..k -> S] : k \in 0..n}

SetMax(S) == CHOOSE x \in S : \A y \in S : y <= x

\* ----------------------------------------------------------------------- text

Digits == {"0", "1", "2", "3", "4", "5", "6", "7", "8", "9"}

isDigit(s, i) == i >= 1 /\ i <= Len(s) /\ s[i] \in Digits

DigitVal(c) ==
    CASE c = "0" -> 0 [] c = "1" -> 1 [] c = "2" -> 2 [] c = "3" -> 3
      [] c = "4" -> 4 [] c = "5" -> 5 [] c = "6" -> 6 [] c = "7" -> 7
      [] c = "8" -> 8 [] c = "9" -> 9

AllDigits(s) == \A i \in DOMAIN s : s[i] \in Digits

\* The number a string of decimal digits writes: n = n*10 + int(ch).
RECURSIVE DigitsValue(_)
DigitsValue(s) ==
    IF s = <<>> THEN 0
    ELSE DigitsValue(SubSeq(s, 1, Len(s) - 1)) * 10 + DigitVal(s[Len(s)])

Tail2(s, i) == SubSeq(s, i, Len(s))

\* ------------------------------------------------------------------- strconv

\* s without its leading and trailing spaces.
RECURSIVE TrimSpace(_)
TrimSpace(s) ==
    IF s = <<>> THEN s
    ELSE IF s[1] = " " THEN TrimSpace(Tail(s))
    ELSE IF s[Len(s)] = " " THEN TrimSpace(SubSeq(s, 1, Len(s) - 1))
    ELSE s

\* An integer parse that trims the text first.
AtoiTrimmed(s) ==
    LET t == TrimSpace(s) IN
    IF t = <<>> THEN [value |-> 0, err |-> "ErrSyntax"]
    ELSE LET body == IF t[1] \in {"-", "+"} THEN Tail(t) ELSE t IN
         IF body = <<>> \/ ~AllDigits(body)
         THEN [value |-> 0, err |-> "ErrSyntax"]
         ELSE [value |-> IF t[1] = "-" THEN 0 - DigitsValue(body)
                         ELSE DigitsValue(body),
               err |-> "nil"]

\* strconv.Atoi. The model's texts are shorter than 19 characters, where Atoi
\* takes its fast path: an optional sign, then one or more digits and nothing
\* else; no white space is skipped and no value is out of range.
Atoi(s) ==
    IF s = <<>> THEN [value |-> 0, err |-> "ErrSyntax"]
    ELSE LET body == IF s[1] \in {"-", "+"} THEN Tail(s) ELSE s IN
         IF body = <<>> \/ ~AllDigits(body)
         THEN [value |-> 0, err |-> "ErrSyntax"]
         ELSE [value |-> IF s[1] = "-" THEN 0 - DigitsValue(body)
                         ELSE DigitsValue(body),
               err |-> "nil"]

\* A float64 is written [neg, mant, exp] for (-1)^neg * mant * 10^exp with no
\* trailing zero in mant; the model's texts hold few enough digits for this
\* to name one float64 each.
RECURSIVE NormFloat(_, _, _)
NormFloat(neg, m, e) ==
    IF m = 0 THEN [neg |-> neg, mant |-> 0, exp |-> 0]
    ELSE IF m % 10 = 0 THEN NormFloat(neg, m \div 10, e + 1)
    ELSE [neg |-> neg, mant |-> m, exp |-> e]

ZeroFloat == [neg |-> FALSE, mant |-> 0, exp |-> 0]

RECURSIVE NumDigits(_)
NumDigits(m) == IF m < 10 THEN 1 ELSE 1 + NumDigits(m \div 10)

RECURSIVE Pow10(_)
Pow10(n) == IF n = 0 THEN 1 ELSE 10 * Pow10(n - 1)

\* Whether mant * 10^exp is beyond the largest float64 (1.7976931348623157e308),
\* for a mantissa of at most eight digits.
FloatOverflows(f) ==
    /\ f.mant # 0
    /\ LET n == NumDigits(f.mant) IN
         \/ n + f.exp > 309
         \/ n + f.exp = 309 /\ n <= 8 /\ f.mant * Pow10(8 - n) >= 17976932

\* The index of the first e or E of s, or 0.
ExpMark(s) ==
    IF \E i \in DOMAIN s : s[i] \in {"e", "E"}
    THEN CHOOSE i \in DOMAIN s :
             s[i] \in {"e", "E"} /\ \A j \in 1..(i - 1) : s[j] \notin {"e", "E"}
    ELSE 0

\* strconv.ParseFloat(s, 64) on decimal text: an optional sign, digits with at
\* most one point and at least one digit, then an optional exponent (e or E,
\* an optional sign, at least one digit), and nothing else. (Hexadecimal
\* floats, underscores, Inf and NaN need characters the model's texts do not
\* hold.)
ParseFloat(s) ==
    LET signed == s # <<>> /\ s[1] \in {"-", "+"}
        neg == s # <<>> /\ s[1] = "-"
        body == IF signed THEN Tail(s) ELSE s
        k == ExpMark(body)
        mant == IF k = 0 THEN body ELSE SubSeq(body, 1, k - 1)
        expo == IF k = 0 THEN <<>> ELSE Tail2(body, k + 1)
        esigned == expo # <<>> /\ expo[1] \in {"-", "+"}
        edigits == IF esigned THEN Tail(expo) ELSE expo
        points == {i \in DOMAIN mant : mant[i] = "."}
        mdigits == SelectSeq(mant, LAMBDA c : c # ".")
        mantOk == /\ Cardinality(points) <= 1
                  /\ mdigits # <<>>
                  /\ AllDigits(mdigits)
        expOk == k = 0 \/ (edigits # <<>> /\ AllDigits(edigits))
    IN  IF ~(mantOk /\ expOk) THEN [value |-> ZeroFloat, err |-> "ErrSyntax"]
        ELSE LET frac == IF points = {} THEN 0
                         ELSE Len(mant) - (CHOOSE i \in points : TRUE)
                 ev == IF expo # <<>> /\ expo[1] = "-" THEN 0 - DigitsValue(edigits)
                       ELSE DigitsValue(edigits)
                 f == NormFloat(neg, DigitsValue(mdigits), ev - frac)
             IN  IF FloatOverflows(f) THEN [value |-> f, err |-> "ErrRange"]
                 ELSE [value |-> f, err |-> "nil"]

\* ---------------------------------------------------------------------- time

isLeap(year) == year % 4 = 0 /\ (year % 100 # 0 \/ year % 400 = 0)

daysIn(month, year) ==
    IF month = 2 THEN (IF isLeap(year) THEN 29 ELSE 28)
    ELSE IF month \in {4, 6, 9, 11} THEN 30
    ELSE 31

ZeroDate == [year |-> 1, month |-> 1, day |-> 1]
ZeroTime == [hour |-> 0, minute |-> 0, second |-> 0]

\* time.Parse(dateFormat, s) with dateFormat = "20060102": a four-digit year,
\* a two-digit month in 1..12, a two-digit day that exists in that month, and
\* no text after them.
ParseDate(s) ==
    IF Len(s) < 8 \/ ~AllDigits(SubSeq(s, 1, 8))
    THEN [value |-> ZeroDate, err |-> "ParseError"]
    ELSE LET year == DigitsValue(SubSeq(s, 1, 4))
             month == DigitsValue(SubSeq(s, 5, 6))
             day == DigitsValue(SubSeq(s, 7, 8))
         IN  IF month <= 0 \/ 12 < month
             THEN [value |-> ZeroDate, err |-> "ParseError: month out of range"]
             ELSE IF Len(s) > 8
             THEN [value |-> ZeroDate, err |-> "ParseError: extra text"]
             ELSE IF day < 1 \/ day > daysIn(month, year)
             THEN [value |-> ZeroDate, err |-> "ParseError: day out of range"]
             ELSE [value |-> [year |-> year, month |-> month, day |-> day],
                   err |-> "nil"]

\* The length of the run of digits of s that starts at index i.
RECURSIVE DigitRun(_, _)
DigitRun(s, i) == IF isDigit(s, i) THEN 1 + DigitRun(s, i + 1) ELSE 0

\* time.Parse(timeFormat, s) with timeFormat = "15:04:05": an hour of one or
\* two digits below 24, a colon, a two-digit minute below 60, a colon, a
\* two-digit second below 60, then optionally a point or comma and digits (a
\* fractional second is accepted though the layout has none), and no text
\* after them. The caller keeps the hour, the minute and the second.
ParseTime(s) ==
    LET bad == [value |-> ZeroTime, err |-> "ParseError"]
        hlen == IF isDigit(s, 2) THEN 2 ELSE 1
        rest == Tail2(s, hlen + 1)
    IN  IF ~isDigit(s, 1) THEN bad
        ELSE LET hour == DigitsValue(SubSeq(s, 1, hlen)) IN
        IF 24 <= hour THEN [value |-> ZeroTime, err |-> "ParseError: hour out of range"]
        ELSE IF ~(Len(rest) >= 3 /\ rest[1] = ":" /\ isDigit(rest, 2) /\ isDigit(rest, 3))
        THEN bad
        ELSE LET minute == DigitsValue(SubSeq(rest, 2, 3)) IN
        IF 60 <= minute THEN [value |-> ZeroTime, err |-> "ParseError: minute out of range"]
        ELSE IF ~(Len(rest) >= 6 /\ rest[4] = ":" /\ isDigit(rest, 5) /\ isDigit(rest, 6))
        THEN bad
        ELSE LET second == DigitsValue(SubSeq(rest, 5, 6))
                 after == Tail2(rest, 7)
                 frac == IF Len(after) >= 2 /\ after[1] \in {".", ","} /\ isDigit(after, 2)
                         THEN 1 + DigitRun(after, 2)
                         ELSE 0
             IN
        IF 60 <= second THEN [value |-> ZeroTime, err |-> "ParseError: second out of range"]
        ELSE IF Len(after) > frac
        THEN [value |-> ZeroTime, err |-> "ParseError: extra text"]
        ELSE [value |-> [hour |-> hour, minute |-> minute, second |-> second],
              err |-> "nil"]

\* ------------------------------------------------------------------ the files

\* The texts the cells of a file are drawn from.
FileCells == {<<"a">>, <<"b">>}

\* A line of a file after decoding: a record of at least one field, a blank
\* line, or a line whose quoting is malformed (a bare quote in a field).
RecLine(cells) == [kind |-> "rec", cells |-> cells]
BlankLine == [kind |-> "blank", cells |-> <<>>]
BadLine == [kind |-> "bad", cells |-> <<>>]

FileLines ==
    {RecLine(c) : c \in (SeqsUpTo(FileCells, MaxFields) \ {<<>>})}
        \cup {BlankLine, BadLine}

FileContents == SeqsUpTo(FileLines, MaxLines)

Paths == {"example.csv", "missing.csv"}
ExistingPaths == {"example.csv"}

\* The encoding names a caller may pass: the four the switch knows, one with
\* another case, and one it does not know.
EncodingNames == {"utf-8", "shift-jis", "shift_jis", "sjis", "UTF-8", "latin1"}

\* ------------------------------------------------------------- encoding/csv

\* csv.NewReader: FieldsPerRecord is left at 0, so the first Read sets it to
\* the number of fields of the first record and every later record must have
\* that many fields.
NewReader == [pos |-> 1, FieldsPerRecord |-> 0]

\* The index of the first line at or after p that is not blank (blank lines
\* are skipped by the reader), or Len(lines) + 1 at the end of the input.
RECURSIVE SkipBlank(_, _)
SkipBlank(lines, p) ==
    IF p > Len(lines) THEN Len(lines) + 1
    ELSE IF lines[p].kind = "blank" THEN SkipBlank(lines, p + 1)
    ELSE p

\* csv.Reader.readRecord on the decoded lines: the record, the error and the
\* reader afterwards.
readRecord(lines, rd) ==
    LET p == SkipBlank(lines, rd.pos) IN
    IF p > Len(lines)
    THEN [record |-> <<>>, err |-> "EOF",
          reader |-> [rd EXCEPT !.pos = p]]
    ELSE IF lines[p].kind = "bad"
    THEN [record |-> <<>>, err |-> "ParseError",
          reader |-> [rd EXCEPT !.pos = p + 1]]
    ELSE LET rec == lines[p].cells IN
         IF rd.FieldsPerRecord > 0 /\ Len(rec) # rd.FieldsPerRecord
         THEN [record |-> rec, err |-> "ErrFieldCount",
               reader |-> [rd EXCEPT !.pos = p + 1]]
         ELSE [record |-> rec, err |-> "nil",
               reader |-> [pos |-> p + 1,
                           FieldsPerRecord |->
                               IF rd.FieldsPerRecord = 0 THEN Len(rec)
                               ELSE rd.FieldsPerRecord]]

\* ------------------------------------------------------------------ OpenCSV

DataFrame(h, r) == [Headers |-> h, Records |-> r]

\* headerMap[header] = i for i, header := range headers: the zero-based index
\* of a name's last occurrence.
headerMap(hs) ==
    [n \in Range(hs) |-> SetMax({i \in DOMAIN hs : hs[i] = n}) - 1]

\* A switch that matches the encoding name without regard to case.
SelectDecoderFoldCase(enc) ==
    CASE enc \in {"utf-8", "UTF-8"} -> "BOMOverride(UTF8)"
      [] enc \in {"shift-jis", "shift_jis", "sjis"} -> "BOMOverride(ShiftJIS)"
      [] OTHER -> "none"

\* The switch on the encoding name: the decoder, or none for the default arm.
SelectDecoder(enc) ==
    CASE enc = "utf-8" -> "BOMOverride(UTF8)"
      [] enc \in {"shift-jis", "shift_jis", "sjis"} -> "BOMOverride(ShiftJIS)"
      [] OTHER -> "none"

\* A return that runs no deferred call.
ReturnNoDefer(d, e) ==
    /\ result' = [df |-> d, err |-> e]
    /\ pc' = "done"

\* A return statement: the results are set, then the deferred calls run
\* before control is back with the caller.
Return(d, e) ==
    /\ result' = [df |-> d, err |-> e]
    /\ pc' = IF deferred = <<>> THEN "done" ELSE "defer"

\* A failure return that hands back what was read so far.
FailPartial(e) == Return(DataFrame(headerMap(headers), records), e)

\* return nil, fmt.Errorf(...)
Fail(e) == Return(NULL, e)

\* file, err := os.Open(filePath); on failure return; defer file.Close()
Open ==
    /\ pc = "open"
    /\ opens' = opens + 1
    /\ IF filePath \in DOMAIN fsys
       THEN /\ handle' = "open"
            /\ deferred' = <<"file.Close">>
            /\ pc' = "switch"
            /\ UNCHANGED result
       ELSE /\ Fail([kind |-> "FileOpenError", path |-> filePath])
            /\ UNCHANGED <<handle, deferred>>
    /\ UNCHANGED <<fsys, filePath, encoding, decoder, reader, headers, records>>
    /\ UNCHANGED accVars

\* switch encoding { ... default: return nil, unsupported encoding }
\* followed by csv.NewReader(transform.NewReader(file, decoder))
Switch ==
    /\ pc = "switch"
    /\ IF SelectDecoder(encoding) = "none"
       THEN /\ Fail([kind |-> "UnsupportedEncoding", name |-> encoding])
            /\ UNCHANGED <<decoder, reader>>
       ELSE /\ decoder' = SelectDecoder(encoding)
            /\ reader' = NewReader
            /\ pc' = "header"
            /\ UNCHANGED result
    /\ UNCHANGED <<fsys, filePath, encoding, handle, opens, deferred, headers, records>>
    /\ UNCHANGED accVars

\* headers, err := reader.Read()
ReadHeader ==
    /\ pc = "header"
    /\ LET r == readRecord(fsys[filePath], reader) IN
         /\ reader' = r.reader
         /\ IF r.err # "nil"
            THEN /\ Fail([kind |-> "HeaderReadError", cause |-> r.err])
                 /\ UNCHANGED headers
            ELSE /\ headers' = r.record
                 /\ pc' = "records"
                 /\ UNCHANGED result
    /\ UNCHANGED <<fsys, filePath, encoding, handle, opens, deferred, decoder, records>>
    /\ UNCHANGED accVars

\* records, err := reader.ReadAll(): one turn of its loop. The end of the
\* input ends the loop; any other error makes ReadAll return nil and the error.
ReadAll ==
    /\ pc = "records"
    /\ LET r == readRecord(fsys[filePath], reader) IN
         /\ reader' = r.reader
         /\ IF r.err = "EOF"
            THEN /\ pc' = "build"
                 /\ UNCHANGED <<records, result>>
            ELSE IF r.err # "nil"
            THEN /\ Fail([kind |-> "RecordReadError", cause |-> r.err])
                 /\ records' = <<>>
            ELSE /\ records' = Append(records, r.record)
                 /\ pc' = "records"
                 /\ UNCHANGED result
    /\ UNCHANGED <<fsys, filePath, encoding, handle, opens, deferred, decoder, headers>>
    /\ UNCHANGED accVars

\* headerMap := ...; return &DataFrame{Headers: headerMap, Records: records}, nil
Build ==
    /\ pc = "build"
    /\ Return(DataFrame(headerMap(headers), records), NoError)
    /\ UNCHANGED <<fsys, filePath, encoding, handle, opens, deferred, decoder,
                   reader, headers, records>>
    /\ UNCHANGED accVars

\* The deferred file.Close() runs when OpenCSV returns.
DeferredClose ==
    /\ pc = "defer"
    /\ deferred = <<"file.Close">>
    /\ handle' = "closed"
    /\ deferred' = <<>>
    /\ pc' = "done"
    /\ UNCHANGED <<fsys, filePath, encoding, opens, decoder, reader, headers,
                   records, result>>
    /\ UNCHANGED accVars

\* ---------------------------------------------------------------- accessors

\* What a call produces: the returned value and error, or a run-time panic
\* (index out of range), which returns nothing.
Panic == [panic |-> "index out of range"]
Panicked(r) == "panic" \in DOMAIN r

ParseErr(kind, columnName, rowIndex, cause) ==
    [kind |-> kind, column |-> columnName, row |-> rowIndex, cause |-> cause]

\* A getValue that checks the row index before it looks the column up.
getValueRowFirst(d, rowIndex, columnName) ==
    IF rowIndex < 0 \/ rowIndex >= Len(d.Records)
    THEN [value |-> <<>>, err |-> [kind |-> "RowIndexOutOfRange", row |-> rowIndex]]
    ELSE IF columnName \notin DOMAIN d.Headers
    THEN [value |-> <<>>, err |-> [kind |-> "UnknownColumn", column |-> columnName]]
    ELSE LET idx == d.Headers[columnName]
             rec == d.Records[rowIndex + 1]
         IN  IF idx >= Len(rec) THEN Panic
             ELSE [value |-> rec[idx + 1], err |-> NoError]

\* A getValue whose upper bound is off by one (rowIndex > len(df.Records)):
\* rowIndex = len(df.Records) then indexes past the end of Records.
getValueOffByOne(d, rowIndex, columnName) ==
    IF columnName \notin DOMAIN d.Headers
    THEN [value |-> <<>>, err |-> [kind |-> "UnknownColumn", column |-> columnName]]
    ELSE IF rowIndex < 0 \/ rowIndex > Len(d.Records)
    THEN [value |-> <<>>, err |-> [kind |-> "RowIndexOutOfRange", row |-> rowIndex]]
    ELSE IF rowIndex = Len(d.Records) THEN Panic
    ELSE LET idx == d.Headers[columnName]
             rec == d.Records[rowIndex + 1]
         IN  IF idx >= Len(rec) THEN Panic
             ELSE [value |-> rec[idx + 1], err |-> NoError]

\* getValue: the column is looked up first, then the row index is checked,
\* then the cell is read with no check of the row's length.
getValue(d, rowIndex, columnName) ==
    IF columnName \notin DOMAIN d.Headers
    THEN [value |-> <<>>, err |-> [kind |-> "UnknownColumn", column |-> columnName]]
    ELSE IF rowIndex < 0 \/ rowIndex >= Len(d.Records)
    THEN [value |-> <<>>, err |-> [kind |-> "RowIndexOutOfRange", row |-> rowIndex]]
    ELSE LET idx == d.Headers[columnName]
             rec == d.Records[rowIndex + 1]
         IN  IF idx >= Len(rec) THEN Panic
             ELSE [value |-> rec[idx + 1], err |-> NoError]

GetString(d, rowIndex, columnName) == getValue(d, rowIndex, columnName)

\* A pointer result is <<>> for nil and <<v>> for a pointer to v.
GetStringPtr(d, rowIndex, columnName) ==
    LET v == getValue(d, rowIndex, columnName) IN
    IF Panicked(v) THEN v
    ELSE IF v.err # NoError THEN [value |-> <<>>, err |-> v.err]
    ELSE IF v.value = <<>> THEN [value |-> <<>>, err |-> NoError]
    ELSE [value |-> <<v.value>>, err |-> NoError]

GetInt(d, rowIndex, columnName) ==
    LET v == getValue(d, rowIndex, columnName) IN
    IF Panicked(v) THEN v
    ELSE IF v.err # NoError THEN [value |-> 0, err |-> v.err]
    ELSE LET p == Atoi(v.value) IN
         IF p.err # "nil"
         THEN [value |-> 0,
               err |-> ParseErr("IntParseError", columnName, rowIndex, p.err)]
         ELSE [value |-> p.value, err |-> NoError]

\* A GetIntPtr without the test for the empty string.
GetIntPtrNoEmptyTest(d, rowIndex, columnName) ==
    LET v == getValue(d, rowIndex, columnName) IN
    IF Panicked(v) THEN v
    ELSE IF v.err # NoError THEN [value |-> <<>>, err |-> v.err]
    ELSE LET p == Atoi(v.value) IN
         IF p.err # "nil"
         THEN [value |-> <<>>,
               err |-> ParseErr("IntParseError", columnName, rowIndex, p.err)]
         ELSE [value |-> <<p.value>>, err |-> NoError]

GetIntPtr(d, rowIndex, columnName) ==
    LET v == getValue(d, rowIndex, columnName) IN
    IF Panicked(v) THEN v
    ELSE IF v.err # NoError THEN [value |-> <<>>, err |-> v.err]
    ELSE IF v.value = <<>> THEN [value |-> <<>>, err |-> NoError]
    ELSE LET p == Atoi(v.value) IN
         IF p.err # "nil"
         THEN [value |-> <<>>,
               err |-> ParseErr("IntParseError", columnName, rowIndex, p.err)]
         ELSE [value |-> <<p.value>>, err |-> NoError]

GetFloat(d, rowIndex, columnName) ==
    LET v == getValue(d, rowIndex, columnName) IN
    IF Panicked(v) THEN v
    ELSE IF v.err # NoError THEN [value |-> ZeroFloat, err |-> v.err]
    ELSE LET p == ParseFloat(v.value) IN
         IF p.err # "nil"
         THEN [value |-> ZeroFloat,
               err |-> ParseErr("FloatParseError", columnName, rowIndex, p.err)]
         ELSE [value |-> p.value, err |-> NoError]

GetFloatPtr(d, rowIndex, columnName) ==
    LET v == getValue(d, rowIndex, columnName) IN
    IF Panicked(v) THEN v
    ELSE IF v.err # NoError THEN [value |-> <<>>, err |-> v.err]
    ELSE IF v.value = <<>> THEN [value |-> <<>>, err |-> NoError]
    ELSE LET p == ParseFloat(v.value) IN
         IF p.err # "nil"
         THEN [value |-> <<>>,
               err |-> ParseErr("FloatParseError", columnName, rowIndex, p.err)]
         ELSE [value |-> <<p.value>>, err |-> NoError]

GetDate(d, rowIndex, columnName) ==
    LET v == getValue(d, rowIndex, columnName) IN
    IF Panicked(v) THEN v
    ELSE IF v.err # NoError THEN [value |-> ZeroDate, err |-> v.err]
    ELSE LET p == ParseDate(v.value) IN
         IF p.err # "nil"
         THEN [value |-> ZeroDate,
               err |-> ParseErr("DateParseError", columnName, rowIndex, p.err)]
         ELSE [value |-> p.value, err |-> NoError]

GetDatePtr(d, rowIndex, columnName) ==
    LET v == getValue(d, rowIndex, columnName) IN
    IF Panicked(v) THEN v
    ELSE IF v.err # NoError THEN [value |-> <<>>, err |-> v.err]
    ELSE IF v.value = <<>> THEN [value |-> <<>>, err |-> NoError]
    ELSE LET p == ParseDate(v.value) IN
         IF p.err # "nil"
         THEN [value |-> <<>>,
               err |-> ParseErr("DateParseError", columnName, rowIndex, p.err)]
         ELSE [value |-> <<p.value>>, err |-> NoError]

GetTime(d, rowIndex, columnName) ==
    LET v == getValue(d, rowIndex, columnName) IN
    IF Panicked(v) THEN v
    ELSE IF v.err # NoError THEN [value |-> ZeroTime, err |-> v.err]
    ELSE LET p == ParseTime(v.value) IN
         IF p.err # "nil"
         THEN [value |-> ZeroTime,
               err |-> ParseErr("TimeParseError", columnName, rowIndex, p.err)]
         ELSE [value |-> p.value, err |-> NoError]

GetTimePtr(d, rowIndex, columnName) ==
    LET v == getValue(d, rowIndex, columnName) IN
    IF Panicked(v) THEN v
    ELSE IF v.err # NoError THEN [value |-> <<>>, err |-> v.err]
    ELSE IF v.value = <<>> THEN [value |-> <<>>, err |-> NoError]
    ELSE LET p == ParseTime(v.value) IN
         IF p.err # "nil"
         THEN [value |-> <<>>,
               err |-> ParseErr("TimeParseError", columnName, rowIndex, p.err)]
         ELSE [value |-> <<p.value>>, err |-> NoError]

\* -------------------------------------------------------------------- ToJSON

\* The characters of the model's texts, in byte order.
ByteOrder == <<" ", "+", ",", "-", ".", "0", "1", "2", "3", "4", "5", "6", "7",
               "8", "9", ":", "E", "a", "b", "c", "e">>

ByteOf(c) == CHOOSE i \in DOMAIN ByteOrder : ByteOrder[i] = c

\* s < t as strings.
RECURSIVE StringLess(_, _)
StringLess(s, t) ==
    IF t = <<>> THEN FALSE
    ELSE IF s = <<>> THEN TRUE
    ELSE IF s[1] # t[1] THEN ByteOf(s[1]) < ByteOf(t[1])
    ELSE StringLess(Tail(s), Tail(t))

\* encoding/json writes the keys of a map in sorted order.
RECURSIVE SortedKeys(_)
SortedKeys(S) ==
    IF S = {} THEN <<>>
    ELSE LET m == CHOOSE x \in S : \A y \in S : x = y \/ StringLess(x, y)
         IN  <<m>> \o SortedKeys(S \ {m})

\* The JSON text is a sequence of tokens: a piece of punctuation or white
\* space as written, or a string literal with its characters. (The model's
\* texts hold no character that encoding/json escapes.)
Punct(p) == [p |-> p, str |-> <<>>]
Literal(s) == [p |-> "string", str |-> s]

RECURSIVE Members(_, _)
Members(keys, row) ==
    IF keys = <<>> THEN <<>>
    ELSE <<Punct("\n    "), Literal(keys[1]), Punct(": "), Literal(row[keys[1]])>>
         \o (IF Len(keys) > 1 THEN <<Punct(",")>> ELSE <<>>)
         \o Members(Tail(keys), row)

MarshalObject(row) ==
    IF DOMAIN row = {} THEN <<Punct("{}")>>
    ELSE <<Punct("{")>> \o Members(SortedKeys(DOMAIN row), row)
         \o <<Punct("\n  "), Punct("}")>>

RECURSIVE Elements(_)
Elements(rows) ==
    IF rows = <<>> THEN <<>>
    ELSE <<Punct("\n  ")>> \o MarshalObject(rows[1])
         \o (IF Len(rows) > 1 THEN <<Punct(",")>> ELSE <<>>)
         \o Elements(Tail(rows))

\* json.MarshalIndent(jsonArray, "", "  ") of a []map[string]string, which
\* cannot fail.
MarshalIndent(rows) ==
    IF rows = <<>> THEN <<Punct("[]")>>
    ELSE <<Punct("[")>> \o Elements(rows) \o <<Punct("\n"), Punct("]")>>

\* A row map without the else branch: a column the record is too short for
\* gets no entry.
jsonRowNoElse(d, record) ==
    [column \in {c \in DOMAIN d.Headers : d.Headers[c] < Len(record)} |->
        record[d.Headers[column] + 1]]

\* The map built for one record: every column of Headers, with the cell at
\* its index, or the empty string when the record is too short.
jsonRow(d, record) ==
    [column \in DOMAIN d.Headers |->
        IF d.Headers[column] < Len(record)
        THEN record[d.Headers[column] + 1]
        ELSE <<>>]

ToJSON(d) ==
    IF Len(d.Records) = 0 THEN [value |-> <<Punct("[]")>>, err |-> NoError]
    ELSE LET jsonArray == [i \in DOMAIN d.Records |-> jsonRow(d, d.Records[i])]
         IN  [value |-> MarshalIndent(jsonArray), err |-> NoError]

\* ------------------------------------------------- the accessors' DataFrames

\* DataFrame is an exported struct with exported fields: besides OpenCSV's
\* result, a caller may hand the accessors any DataFrame it built, and ToJSON
\* itself provides for records shorter than the header. The accessors are
\* therefore run on DataFrames whose records have any length up to MaxCols.
ColumnNames == {<<"a">>, <<"b">>}

\* A column name no header holds.
AbsentColumn == <<"c">>

ShapeCells == {<<>>, <<"7">>}

ShapeFrames ==
    {DataFrame(headerMap(hs), recs) :
        hs \in SeqsUpTo(ColumnNames, MaxCols),
        recs \in SeqsUpTo(SeqsUpTo(ShapeCells, MaxCols), MaxRows)}

\* Cell texts for the conversions: empty, integers with and without a sign or
\* white space around them, floats, dates and times, well formed or not.
CellTexts ==
    { <<>>,
      <<"3", "0">>, <<" ", "3", "0">>, <<"3", "0", " ">>, <<" ", "3", "0", " ">>,
      <<"-", "7">>, <<"+", "5">>, <<"-">>, <<"3", "a">>, <<"a", "b", "c">>,
      <<"3", ".", "5">>, <<".", "5">>, <<"1", "e", "3">>, <<"1", "E", "-", "2">>,
      <<"1", "e">>, <<"1", "e", "3", "0", "9">>,
      <<"2", "0", "2", "4", "0", "1", "1", "5">>,
      <<"2", "0", "2", "4", "-", "0", "1", "-", "1", "5">>,
      <<"2", "0", "2", "3", "0", "2", "2", "9">>,
      <<"2", "0", "2", "4", "1", "3", "0", "1">>,
      <<"1", "2", ":", "3", "4", ":", "5", "6">>,
      <<"1", ":", "0", "2", ":", "0", "3">>,
      <<"2", "4", ":", "0", "0", ":", "0", "0">>,
      <<"1", "2", ":", "3", "4">>,
      <<"1", "2", ":", "3", "4", ":", "5", "6", ".", "5">> }

\* One record of one cell under the header a.
CellFrames ==
    {DataFrame(headerMap(<<<<"a">>>>), <<<<t>>>>) : t \in CellTexts}

Frames == ShapeFrames \cup CellFrames

RowIndexes == (0 - 1)..MaxRows

CallColumns == ColumnNames \cup {AbsentColumn}

\* A caller that holds df makes one accessor call; call and ret record the call
\* and what it produced. The accessors only read df, so a call made after
\* another one produces what it produces when made first.
CallGetString ==
    /\ pc = "loaded"
    /\ \E r \in RowIndexes, c \in CallColumns :
         /\ call' = [fn |-> "GetString", rowIndex |-> r, columnName |-> c]
         /\ ret' = GetString(df, r, c)
    /\ pc' = "called"
    /\ UNCHANGED <<fsys, filePath, encoding, handle, opens, deferred, decoder,
                   reader, headers, records, result, df>>

CallGetStringPtr ==
    /\ pc = "loaded"
    /\ \E r \in RowIndexes, c \in CallColumns :
         /\ call' = [fn |-> "GetStringPtr", rowIndex |-> r, columnName |-> c]
         /\ ret' = GetStringPtr(df, r, c)
    /\ pc' = "called"
    /\ UNCHANGED <<fsys, filePath, encoding, handle, opens, deferred, decoder,
                   reader, headers, records, result, df>>

CallGetInt ==
    /\ pc = "loaded"
    /\ \E r \in RowIndexes, c \in CallColumns :
         /\ call' = [fn |-> "GetInt", rowIndex |-> r, columnName |-> c]
         /\ ret' = GetInt(df, r, c)
    /\ pc' = "called"
    /\ UNCHANGED <<fsys, filePath, encoding, handle, opens, deferred, decoder,
                   reader, headers, records, result, df>>

CallGetIntPtr ==
    /\ pc = "loaded"
    /\ \E r \in RowIndexes, c \in CallColumns :
         /\ call' = [fn |-> "GetIntPtr", rowIndex |-> r, columnName |-> c]
         /\ ret' = GetIntPtr(df, r, c)
    /\ pc' = "called"
    /\ UNCHANGED <<fsys, filePath, encoding, handle, opens, deferred, decoder,
                   reader, headers, records, result, df>>

CallGetFloat ==
    /\ pc = "loaded"
    /\ \E r \in RowIndexes, c \in CallColumns :
         /\ call' = [fn |-> "GetFloat", rowIndex |-> r, columnName |-> c]
         /\ ret' = GetFloat(df, r, c)
    /\ pc' = "called"
    /\ UNCHANGED <<fsys, filePath, encoding, handle, opens, deferred, decoder,
                   reader, headers, records, result, df>>

CallGetFloatPtr ==
    /\ pc = "loaded"
    /\ \E r \in RowIndexes, c \in CallColumns :
         /\ call' = [fn |-> "GetFloatPtr", rowIndex |-> r, columnName |-> c]
         /\ ret' = GetFloatPtr(df, r, c)
    /\ pc' = "called"
    /\ UNCHANGED <<fsys, filePath, encoding, handle, opens, deferred, decoder,
                   reader, headers, records, result, df>>

CallGetDate ==
    /\ pc = "loaded"
    /\ \E r \in RowIndexes, c \in CallColumns :
         /\ call' = [fn |-> "GetDate", rowIndex |-> r, columnName |-> c]
         /\ ret' = GetDate(df, r, c)
    /\ pc' = "called"
    /\ UNCHANGED <<fsys, filePath, encoding, handle, opens, deferred, decoder,
                   reader, headers, records, result, df>>

CallGetDatePtr ==
    /\ pc = "loaded"
    /\ \E r \in RowIndexes, c \in CallColumns :
         /\ call' = [fn |-> "GetDatePtr", rowIndex |-> r, columnName |-> c]
         /\ ret' = GetDatePtr(df, r, c)
    /\ pc' = "called"
    /\ UNCHANGED <<fsys, filePath, encoding, handle, opens, deferred, decoder,
                   reader, headers, records, result, df>>

CallGetTime ==
    /\ pc = "loaded"
    /\ \E r \in RowIndexes, c \in CallColumns :
         /\ call' = [fn |-> "GetTime", rowIndex |-> r, columnName |-> c]
         /\ ret' = GetTime(df, r, c)
    /\ pc' = "called"
    /\ UNCHANGED <<fsys, filePath, encoding, handle, opens, deferred, decoder,
                   reader, headers, records, result, df>>

CallGetTimePtr ==
    /\ pc = "loaded"
    /\ \E r \in RowIndexes, c \in CallColumns :
         /\ call' = [fn |-> "GetTimePtr", rowIndex |-> r, columnName |-> c]
         /\ ret' = GetTimePtr(df, r, c)
    /\ pc' = "called"
    /\ UNCHANGED <<fsys, filePath, encoding, handle, opens, deferred, decoder,
                   reader, headers, records, result, df>>

CallToJSON ==
    /\ pc = "loaded"
    /\ call' = [fn |-> "ToJSON", rowIndex |-> 0, columnName |-> <<>>]
    /\ ret' = ToJSON(df)
    /\ pc' = "called"
    /\ UNCHANGED <<fsys, filePath, encoding, handle, opens, deferred, decoder,
                   reader, headers, records, result, df>>

EmptyFrame == DataFrame(<<>>, <<>>)
NoCall == [fn |-> "none", rowIndex |-> 0, columnName |-> <<>>]

\* One call OpenCSV(filePath, encoding) in an environment where example.csv
\* exists with some content and missing.csv does not exist.
Init ==
    /\ fsys \in [ExistingPaths -> FileContents]
    /\ filePath \in Paths
    /\ encoding \in EncodingNames
    /\ pc = "open"
    /\ handle = "none"
    /\ opens = 0
    /\ deferred = <<>>
    /\ decoder = "none"
    /\ reader = NewReader
    /\ headers = <<>>
    /\ records = <<>>
    /\ result = [df |-> NULL, err |-> NoError]
    /\ df = EmptyFrame
    /\ call = NoCall
    /\ ret = NULL

Next ==
    \/ Open
    \/ Switch
    \/ ReadHeader
    \/ ReadAll
    \/ Build
    \/ DeferredClose

Spec == Init /\ [][Next]_vars

\* A caller holding some DataFrame, no OpenCSV call in progress.
InitAcc ==
    /\ fsys = [p \in ExistingPaths |-> <<>>]
    /\ filePath = "example.csv"
    /\ encoding = "utf-8"
    /\ pc = "loaded"
    /\ handle = "none"
    /\ opens = 0
    /\ deferred = <<>>
    /\ decoder = "none"
    /\ reader = NewReader
    /\ headers = <<>>
    /\ records = <<>>
    /\ result = [df |-> NULL, err |-> NoError]
    /\ df \in Frames
    /\ call = NoCall
    /\ ret = NULL

NextAcc ==
    \/ CallGetString
    \/ CallGetStringPtr
    \/ CallGetInt
    \/ CallGetIntPtr
    \/ CallGetFloat
    \/ CallGetFloatPtr
    \/ CallGetDate
    \/ CallGetDatePtr
    \/ CallGetTime
    \/ CallGetTimePtr
    \/ CallToJSON

SpecAcc == InitAcc /\ [][NextAcc]_vars

\* ================================================================ properties

\* The encoding names the specification lists as recognized.
RecognizedEncodings == {"utf-8", "shift-jis", "shift_jis", "sjis"}

Getters == {"GetString", "GetStringPtr", "GetInt", "GetIntPtr", "GetFloat",
            "GetFloatPtr", "GetDate", "GetDatePtr", "GetTime", "GetTimePtr"}

PtrGetters == {"GetStringPtr", "GetIntPtr", "GetFloatPtr", "GetDatePtr", "GetTimePtr"}

\* A getter has returned from the call recorded in call.
GetterCalled == pc = "called" /\ call.fn \in Getters

ColumnKnown == call.columnName \in DOMAIN df.Headers

RowInRange == 0 <= call.rowIndex /\ call.rowIndex < Len(df.Records)

\* The cell the call addresses exists.
CellPresent ==
    /\ ColumnKnown
    /\ RowInRange
    /\ df.Headers[call.columnName] < Len(df.Records[call.rowIndex + 1])

CellText == df.Records[call.rowIndex + 1][df.Headers[call.columnName] + 1]

\* What a getter returns beside an error: its type's zero value (nil for a
\* pointer).
ZeroOf(fn) ==
    CASE fn = "GetInt" -> 0
      [] fn = "GetFloat" -> ZeroFloat
      [] fn = "GetDate" -> ZeroDate
      [] fn = "GetTime" -> ZeroTime
      [] OTHER -> <<>>

\* The file OpenCSV is asked to read, without its blank lines.
FileExists == filePath \in DOMAIN fsys
NonBlank ==
    IF FileExists THEN SelectSeq(fsys[filePath], LAMBDA l : l.kind # "blank")
    ELSE <<>>
HasBadLine == \E i \in DOMAIN NonBlank : NonBlank[i].kind = "bad"
Returned == pc = "done"

\* ------------------------------------------------------------------------ C1

\* C1 (as stated): whatever the path, a call with an encoding name outside the
\* recognized set fails with UnsupportedEncoding and never tries to open the
\* file.
C1_UnsupportedBeforeOpen ==
    (Returned /\ encoding \notin RecognizedEncodings)
        => /\ result.err.kind = "UnsupportedEncoding"
           /\ opens = 0

\* C1 (amended): a call with an encoding name outside the recognized set
\* returns no DataFrame and has tried to open the file exactly once; where the
\* file can be opened the error is UnsupportedEncoding, naming the encoding,
\* and nothing was read from the file; where it cannot the error is
\* FileOpenError, naming the path.
C1_UnsupportedAfterOpen ==
    (Returned /\ encoding \notin RecognizedEncodings)
        => /\ result.df = NULL
           /\ opens = 1
           /\ FileExists =>
                /\ result.err = [kind |-> "UnsupportedEncoding", name |-> encoding]
                /\ reader.pos = 1
                /\ headers = <<>>
           /\ ~FileExists =>
                result.err = [kind |-> "FileOpenError", path |-> filePath]

\* An existing file was opened and the call then failed on the encoding name.
C1_Witness ==
    /\ Returned
    /\ encoding = "latin1"
    /\ FileExists
    /\ opens = 1
    /\ result.err.kind = "UnsupportedEncoding"

\* ------------------------------------------------------------------------ C2

\* C2: a getter called with a known column and a row index in range never
\* panics: it returns the cell's text (or its conversion), or, where the row
\* is too short for the column, the error CellMissing.
C2_NoPanicOnShortRow ==
    (GetterCalled /\ ColumnKnown /\ RowInRange)
        => /\ ~Panicked(ret)
           /\ ~CellPresent => ret.err.kind = "CellMissing"
           /\ (CellPresent /\ call.fn = "GetString")
                => ret = [value |-> CellText, err |-> NoError]

\* ------------------------------------------------------------------------ C3

\* C3: a getter called with a column name that is not in Headers returns the
\* error UnknownColumn naming that column, and no value, whatever the row
\* index: valid, negative, or at or past the number of rows.
C3_UnknownColumnFirst ==
    (GetterCalled /\ ~ColumnKnown)
        => /\ ~Panicked(ret)
           /\ ret.err = [kind |-> "UnknownColumn", column |-> call.columnName]
           /\ ret.value = ZeroOf(call.fn)

\* A getter was called with an unknown column and a row index out of range.
C3_Witness ==
    /\ GetterCalled
    /\ ~ColumnKnown
    /\ ~RowInRange
    /\ ~Panicked(ret)
    /\ ret.err.kind = "UnknownColumn"

\* ------------------------------------------------------------------------ C4

\* C4: a getter called with a known column and a row index below 0 or at or
\* past the number of rows returns the error RowIndexOutOfRange naming the
\* index, reads no row (no panic, no value), and a pointer getter returns the
\* error, not nil with no error.
C4_RowIndexOutOfRange ==
    (GetterCalled /\ ColumnKnown /\ ~RowInRange)
        => /\ ~Panicked(ret)
           /\ ret.err = [kind |-> "RowIndexOutOfRange", row |-> call.rowIndex]
           /\ ret.value = ZeroOf(call.fn)

\* A pointer getter was called with rowIndex = the number of rows, on a
\* DataFrame that has rows.
C4_Witness ==
    /\ GetterCalled
    /\ call.fn \in PtrGetters
    /\ ColumnKnown
    /\ call.rowIndex = Len(df.Records)
    /\ Len(df.Records) > 0
    /\ ~Panicked(ret)
    /\ ret.err.kind = "RowIndexOutOfRange"

\* ------------------------------------------------------------------------ C5

\* What the value getter of a pointer getter returns for the same arguments.
ValueGetter(fn, d, r, c) ==
    CASE fn = "GetStringPtr" -> GetString(d, r, c)
      [] fn = "GetIntPtr" -> GetInt(d, r, c)
      [] fn = "GetFloatPtr" -> GetFloat(d, r, c)
      [] fn = "GetDatePtr" -> GetDate(d, r, c)
      [] fn = "GetTimePtr" -> GetTime(d, r, c)

\* C5: on a cell that exists, a pointer getter returns nil and no error when
\* the text is empty; when it is not, it succeeds exactly when its value
\* getter succeeds, then pointing to the same value, and otherwise returns the
\* value getter's error.
C5_PtrMatchesValue ==
    (GetterCalled /\ call.fn \in PtrGetters /\ CellPresent)
        => LET v == ValueGetter(call.fn, df, call.rowIndex, call.columnName) IN
           /\ ~Panicked(ret)
           /\ CellText = <<>> => ret = [value |-> <<>>, err |-> NoError]
           /\ CellText # <<>> =>
                /\ (ret.err = NoError) <=> (v.err = NoError)
                /\ v.err = NoError => ret.value = <<v.value>>
                /\ v.err # NoError => (ret.err = v.err /\ ret.value = <<>>)

\* GetIntPtr on an empty cell returned nil and no error, where GetInt fails.
C5_Witness ==
    /\ GetterCalled
    /\ call.fn = "GetIntPtr"
    /\ CellPresent
    /\ CellText = <<>>
    /\ ret = [value |-> <<>>, err |-> NoError]
    /\ GetInt(df, call.rowIndex, call.columnName).err.kind = "IntParseError"

\* ------------------------------------------------------------------------ C6

\* Reading a JSON text back: the objects of the array, in order, each as a
\* function from its keys to its values.
RECURSIVE DecodeFrom(_, _)
DecodeFrom(T, i) ==
    IF i > Len(T) THEN <<>>
    ELSE IF T[i].p = "{}" THEN <<[k \in {} |-> <<>>]>> \o DecodeFrom(T, i + 1)
    ELSE IF T[i].p = "{"
    THEN LET j == CHOOSE j \in (i + 1)..Len(T) :
                      /\ T[j].p = "}"
                      /\ \A m \in (i + 1)..(j - 1) : T[m].p # "}"
             lits == SelectSeq(SubSeq(T, i, j), LAMBDA t : t.p = "string")
             n == Len(lits) \div 2
             keys == {lits[2 * k - 1].str : k \in 1..n}
         IN  <<[key \in keys |->
                  lits[2 * (CHOOSE k \in 1..n : lits[2 * k - 1].str = key)].str]>>
             \o DecodeFrom(T, j + 1)
    ELSE DecodeFrom(T, i + 1)

\* The number of string literals of a JSON text.
LiteralCount(T) == Cardinality({i \in DOMAIN T : T[i].p = "string"})

\* C6: ToJSON returns no error; for a DataFrame with no rows the text is
\* exactly []; otherwise the text is an array with one object per row, in row
\* order, whose keys are exactly the column names of Headers (each once), the
\* value of a column being the row's cell at the column's index, or the empty
\* string where the row is too short.
C6_ToJSON ==
    (pc = "called" /\ call.fn = "ToJSON")
        => /\ ret.err = NoError
           /\ Len(df.Records) = 0 => ret.value = <<[p |-> "[]", str |-> <<>>]>>
           /\ Len(df.Records) > 0 =>
                /\ ret.value[1].p = "["
                /\ ret.value[Len(ret.value)].p = "]"
                /\ LiteralCount(ret.value)
                       = 2 * Len(df.Records) * Cardinality(DOMAIN df.Headers)
                /\ DecodeFrom(ret.value, 1) =
                       [i \in 1..Len(df.Records) |->
                           [c \in DOMAIN df.Headers |->
                               IF df.Headers[c] < Len(df.Records[i])
                               THEN df.Records[i][df.Headers[c] + 1]
                               ELSE <<>>]]

\* ToJSON was called on a DataFrame of two columns and two different rows, the
\* second too short for a column.
C6_Witness ==
    /\ pc = "called"
    /\ call.fn = "ToJSON"
    /\ Cardinality(DOMAIN df.Headers) = 2
    /\ Len(df.Records) = 2
    /\ df.Records[1] = <<<<"7">>, <<>>>>
    /\ Len(df.Records[2]) = 1
    /\ ret.err = NoError
    /\ Len(DecodeFrom(ret.value, 1)) = 2

\* ------------------------------------------------------------------------ C7

\* The DataFrame of the whole file: the header's names, each with the index of
\* its last occurrence, and every record after the header.
WholeFile ==
    LET hs == NonBlank[1].cells IN
    [Headers |-> [n \in {hs[i] : i \in DOMAIN hs} |->
                     CHOOSE i \in 0..(Len(hs) - 1) :
                         /\ hs[i + 1] = n
                         /\ \A j \in (i + 2)..Len(hs) : hs[j] # n],
     Records |-> [i \in 1..(Len(NonBlank) - 1) |-> NonBlank[i + 1].cells]]

\* C7: OpenCSV returns either a DataFrame and no error, and then the DataFrame
\* of the whole file, or an error and no DataFrame; a file that cannot be
\* opened, an unrecognized encoding, a file with no header and a malformed
\* line anywhere in the file each end in an error and no DataFrame.
C7_AllOrNothing ==
    Returned
        => /\ (result.err = NoError) <=> (result.df # NULL)
           /\ result.err = NoError => result.df = WholeFile
           /\ (\/ ~FileExists
               \/ encoding \notin RecognizedEncodings
               \/ NonBlank = <<>>
               \/ HasBadLine)
                => (result.df = NULL /\ result.err # NoError)

\* The header and a record were read, then a malformed line failed the call.
C7_Witness ==
    /\ Returned
    /\ Len(NonBlank) = 3
    /\ NonBlank[1].kind = "rec"
    /\ NonBlank[2].kind = "rec"
    /\ Len(NonBlank[2].cells) = Len(NonBlank[1].cells)
    /\ NonBlank[3].kind = "bad"
    /\ result.err = [kind |-> "RecordReadError", cause |-> "ParseError"]
    /\ result.df = NULL

\* ------------------------------------------------------------------------ C8

\* The file can be opened, the encoding is recognized and every line is well
\* quoted, the first being the header.
WellQuotedFile ==
    /\ FileExists
    /\ encoding \in RecognizedEncodings
    /\ NonBlank # <<>>
    /\ ~HasBadLine

\* Some record after the header has another number of cells than the header.
Ragged ==
    \E i \in 2..Len(NonBlank) : Len(NonBlank[i].cells) # Len(NonBlank[1].cells)

\* C8: a well-quoted file loads whatever the cell counts of its
\* rows, each row kept in Records with its own cell count.
C8_AnyCellCountLoads ==
    (Returned /\ WellQuotedFile)
        => /\ result.err = NoError
           /\ result.df # NULL
           /\ result.df.Records =
                  [i \in 1..(Len(NonBlank) - 1) |-> NonBlank[i + 1].cells]

\* What OpenCSV does instead (csv.Reader's FieldsPerRecord is left at 0): it
\* holds every record to the header's cell count. A well-quoted file with a
\* record of fewer or more cells than the header fails with RecordReadError
\* and no DataFrame, and every record of a DataFrame that OpenCSV returns has
\* exactly as many cells as the header row.
FieldCountEnforced ==
    Returned
        => /\ (WellQuotedFile /\ Ragged)
                => /\ result.df = NULL
                   /\ result.err = [kind |-> "RecordReadError",
                                    cause |-> "ErrFieldCount"]
           /\ (WellQuotedFile /\ ~Ragged)
                => /\ result.err = NoError
                   /\ result.df # NULL
           /\ result.df # NULL
                => \A i \in DOMAIN result.df.Records :
                       Len(result.df.Records[i]) = Len(NonBlank[1].cells)

\* ------------------------------------------------------------------------ C9

Spaces(s) == \A i \in DOMAIN s : s[i] = " "

\* s is an optional sign followed by one or more decimal digits.
IsIntegerText(s) ==
    \/ s # <<>> /\ AllDigits(s)
    \/ Len(s) >= 2 /\ s[1] \in {"+", "-"} /\ AllDigits(Tail(s))

IntegerOf(s) ==
    IF s[1] = "-" THEN 0 - DigitsValue(Tail(s))
    ELSE IF s[1] = "+" THEN DigitsValue(Tail(s))
    ELSE DigitsValue(s)

\* The text between the leading and the trailing spaces of s.
Trimmed(s) ==
    IF Spaces(s) THEN <<>>
    ELSE LET a == CHOOSE i \in DOMAIN s : s[i] # " " /\ \A j \in 1..(i - 1) : s[j] = " "
             b == CHOOSE i \in DOMAIN s : s[i] # " " /\ \A j \in (i + 1)..Len(s) : s[j] = " "
         IN  SubSeq(s, a, b)

IntGetterCalled ==
    /\ GetterCalled
    /\ call.fn \in {"GetInt", "GetIntPtr"}
    /\ CellPresent
    /\ (call.fn = "GetIntPtr" => CellText # <<>>)

IntReturned(n) ==
    ret = [value |-> IF call.fn = "GetInt" THEN n ELSE <<n>>, err |-> NoError]

C10_HandleReleased ==
    /\ handle = "closed" => (FileExists /\ opens = 1)
    /\ handle = "open" => (FileExists /\ opens = 1 /\ deferred = <<"file.Close">>)
    /\ Returned =>
         /\ handle # "open"
         /\ deferred = <<>>
         /\ FileExists => handle = "closed"
         /\ ~FileExists => handle = "none"

\* A call that failed while reading records has returned with its file closed.
C10_Witness ==
    /\ Returned
    /\ result.err.kind = "RecordReadError"
    /\ handle = "closed"

====
